---- MODULE Spec2Model ----
(***************************************************************************)
(* Lightmap baking pipeline of unframework/tile-game:                      *)
(*   - IrradianceAtlasMapper (src/unnamed/part_002): the one-shot effect   *)
(*     that unrolls every lightmapped mesh into a per-face payload buffer  *)
(*     and the render hook that rasterizes it and calls onComplete;        *)
(*   - useAtlas / useMeshWithAtlas (src/src/Atlas.tsx): the progressive    *)
(*     texel-by-texel renderer and its two-buffer stack;                   *)
(*   - IrradianceCompositor (src/src/core/IrradianceCompositor.tsx): the   *)
(*     per-frame additive blend of the base and factor buffers;            *)
(*   - IrradianceSceneManager (src/src/core/IrradianceSceneManager.tsx):   *)
(*     the staging of meshes, the snapshots and the published workbench.   *)
(* Each component has its own specification (MapperSpec, AtlasSpec,        *)
(* CompositorSpec, ManagerSpec) over the shared variable list; a           *)
(* specification leaves the other components' variables at their initial   *)
(* values. RegisterSpec runs useMeshRegister alone with every argument it  *)
(* can get; LayoutSpec applies one frame callback of useAtlas to a face    *)
(* list of any length, and ProbeSpec its probe placement to any face.      *)
(***************************************************************************)
EXTENDS Integers, Sequences, FiniteSets, TLC

\* ------------------------------------------------------------------------
\* Program constants
\* ------------------------------------------------------------------------

\* part_002:34  export const MAX_ITEM_FACES = 1000
MAX_ITEM_FACES == 1000

\* Atlas.tsx:5-6
atlasWidth == 128
atlasHeight == 128

\* Atlas.tsx:8-10  0.1, 0.1 and 0.025 of the atlas, in thousandths
itemSizeU == 100
itemSizeV == 100
itemUVMargin == 25

\* Atlas.tsx:13  maximum physical dimension of a stored item's face
atlasItemMaxDim == 5

\* Atlas.tsx:15  Math.floor(1 / (itemSizeU + itemUVMargin))
itemsPerRow == 1000 \div (itemSizeU + itemUVMargin)

\* Atlas.tsx:194  useRef(4): the face the fill cursor starts at
StartFace == 4

\* ------------------------------------------------------------------------
\* Bounds of the model
\* ------------------------------------------------------------------------

\* largest number of faces registered in atlasInfo
MaxFaces == 5

\* largest number of frame callbacks followed on a non-empty atlas
MaxTicks == 12

\* largest number of frame callbacks followed on an empty atlas
MaxIdleTicks == 1

\* largest number of objects in the traversed light scene
MaxMeshes == 2

\* largest number of calls of the manager's start handler
MaxStarts == 2

\* the longest atlas face list whose layout is examined
MaxLayoutFaces == 66

\* local quad coordinates are examined in steps of 1 / UVSteps
UVSteps == 2

VARIABLES
  \* --- IrradianceAtlasMapper -------------------------------------------
  scene,            \* the objects lightSceneRef.current.traverse visits, in order
  materialLightMap, \* material.lightMap of each object's material
  effectRan,        \* the mount effect (useEffect, []) has run
  inputItems,       \* useState: null, or the items queued for rasterization
  isComplete,       \* useState: the atlas has been rendered and handed over
  mapperError,      \* message of the Error the mount effect threw, or "none"
  mapperErrorAt,    \* position in scene of the object whose callback threw (0: none)
  completedMaps,    \* the AtlasMaps passed to onComplete, in call order
  \* --- useAtlas / useMeshWithAtlas -------------------------------------
  atlasInfo,        \* the AtlasItem list, one entry per registered face
  atlasFaceFillIndex, \* atlasFaceFillIndexRef.current
  atlasStack,       \* useState: the two atlas textures, [0] is the output
  tickError,        \* the exception the last frame callback threw, or "none"
  idleTicks,        \* number of frame callbacks that found atlasInfo empty
  readyTicks,       \* number of frame callbacks that found atlasInfo non-empty
  visited,          \* how often each texel was the one a tick resolved
  promotions,       \* number of setAtlasStack calls so far
  pushedAfterTick,  \* a face was registered after a ready tick
  \* --- useAtlas: one frame callback on a long face list, and its probe ----
  layoutInfo,       \* atlasInfo: a face list of any length, every fill count 0
  layoutTick,       \* the face and fill count of one callback and what it resolved
  quad,             \* position and normal attributes of the four vertices of a face
  probeCam,         \* the local coordinates of a texel and where probeCam was put
  \* --- IrradianceCompositor ----------------------------------------------
  props,            \* the props of the latest render: size, filter, factors
  widthRef,         \* useRef(lightMapWidth): read on first render only
  heightRef,        \* useRef(lightMapHeight)
  textureFilterRef, \* useRef(textureFilter)
  factorNames,      \* useState: Object.keys(factors) of the first render
  rendererArrays,   \* baseArray and factorArrays: texels of every layer
  rendererBuffer,   \* the array object behind every layer, by creation number
  multiplierUniform,\* uniforms.multiplier.value of every layer's material
  orthoTarget,      \* the WebGLRenderTarget whose texture is handed out
  objectsCreated,   \* number of textures and render targets created so far
  output,           \* texels of orthoTarget after the latest frame
  frameDone,        \* a frame was composited since the last edit or write
  \* --- IrradianceSceneManager --------------------------------------------
  registrations,    \* the arguments of the mounted useMeshRegister calls, in mount order
  stage,            \* workbenchStage.items: the staged items, in insertion order
  workbenchBasics,  \* useState: null, or the snapshot { id, items } of the last start
  workbench,        \* useState: null, or the Workbench passed to the children
  published,        \* the ids of the Workbenches setWorkbench was called with, in order
  managerError      \* the Error atlasMapHandler threw, or "none"

mapperVars == <<scene, materialLightMap, effectRan, inputItems, isComplete,
                mapperError, mapperErrorAt, completedMaps>>

texelVars == <<layoutInfo, layoutTick, quad, probeCam>>

atlasVars == <<atlasInfo, atlasFaceFillIndex, atlasStack, tickError, idleTicks,
               readyTicks, visited, promotions, pushedAfterTick, texelVars>>

compositorVars == <<props, widthRef, heightRef, textureFilterRef, factorNames,
                    rendererArrays, rendererBuffer, multiplierUniform, orthoTarget,
                    objectsCreated, output, frameDone>>

managerVars == <<registrations, stage, workbenchBasics, workbench, published,
                 managerError>>

vars == <<scene, materialLightMap, effectRan, inputItems, isComplete,
          mapperError, mapperErrorAt, completedMaps,
          atlasInfo, atlasFaceFillIndex, atlasStack, tickError, idleTicks,
          readyTicks, visited, promotions, pushedAfterTick,
          layoutInfo, layoutTick, quad, probeCam,
          props, widthRef, heightRef, textureFilterRef, factorNames,
          rendererArrays, rendererBuffer, multiplierUniform, orthoTarget,
          objectsCreated, output, frameDone,
          registrations, stage, workbenchBasics, workbench, published,
          managerError>>

\* ------------------------------------------------------------------------
\* IrradianceAtlasMapper: scene objects
\* ------------------------------------------------------------------------

\* A plain lightmapped mesh: an indexed BufferGeometry of one triangle with
\* normal and uv2 buffer attributes and its own Lambert material.
PlainMesh ==
  [ isMesh           |-> TRUE,     \* mesh instanceof THREE.Mesh
    isBufferGeometry |-> TRUE,     \* mesh.geometry instanceof THREE.BufferGeometry
    uv2              |-> "attr",   \* buffer.attributes.uv2: none / attr / interleaved
    hasIndex         |-> TRUE,     \* buffer.index
    indexCount       |-> 3,        \* buffer.index.array.length
    normal           |-> "attr",   \* buffer.attributes.normal: none / attr / interleaved
    material         |-> "lambert",\* none / array / lambert / phong / standard / basic
    lightMap         |-> "null" ]  \* material.lightMap before the pass: null / own / other

\* index array lengths: one and two triangles, and the capacity boundary
IndexCounts == {3, 6, 3 * MAX_ITEM_FACES, 3 * (MAX_ITEM_FACES + 1)}

\* departures from PlainMesh in the geometry that the traverse callback tests
GeometryKinds ==
  { [PlainMesh EXCEPT !.isMesh = FALSE],
    [PlainMesh EXCEPT !.isBufferGeometry = FALSE],
    [PlainMesh EXCEPT !.uv2 = "none"],
    [PlainMesh EXCEPT !.uv2 = "none", !.hasIndex = FALSE],
    [PlainMesh EXCEPT !.uv2 = "none", !.normal = "none"],
    [PlainMesh EXCEPT !.uv2 = "interleaved"],
    [PlainMesh EXCEPT !.hasIndex = FALSE],
    [PlainMesh EXCEPT !.hasIndex = FALSE, !.normal = "none"],
    [PlainMesh EXCEPT !.normal = "none"],
    [PlainMesh EXCEPT !.normal = "interleaved"] }

\* the materials the callback tells apart, with the lightmaps they may carry
MaterialKinds ==
  { [PlainMesh EXCEPT !.material = "none"],
    [PlainMesh EXCEPT !.material = "array"],
    [PlainMesh EXCEPT !.material = "basic"],
    [PlainMesh EXCEPT !.material = "basic", !.lightMap = "own"],
    [PlainMesh EXCEPT !.lightMap = "own"],
    [PlainMesh EXCEPT !.lightMap = "other"],
    [PlainMesh EXCEPT !.material = "phong"],
    [PlainMesh EXCEPT !.material = "phong", !.lightMap = "other"],
    [PlainMesh EXCEPT !.material = "standard"],
    [PlainMesh EXCEPT !.material = "standard", !.lightMap = "own"] }

\* geometry the callback skips or rejects, under a material it would reject
MixedKinds ==
  { [PlainMesh EXCEPT !.uv2 = "none", !.material = "basic"],
    [PlainMesh EXCEPT !.hasIndex = FALSE, !.material = "none"],
    [PlainMesh EXCEPT !.normal = "none", !.lightMap = "other"] }

MeshKinds ==
  { [PlainMesh EXCEPT !.indexCount = n] : n \in IndexCounts }
    \cup GeometryKinds \cup MaterialKinds \cup MixedKinds

RECURSIVE SeqsUpTo(_, _)
SeqsUpTo(S, n) ==
  IF n = 0 THEN {<<>>}
  ELSE LET shorter == SeqsUpTo(S, n - 1)
       IN  shorter \cup {Append(s, x) : s \in {t \in shorter : Len(t) = n - 1}, x \in S}

Scenes == SeqsUpTo(MeshKinds, MaxMeshes)

\* ------------------------------------------------------------------------
\* IrradianceAtlasMapper: the traverse callback of the mount effect
\* ------------------------------------------------------------------------

NullItems == [isNull |-> TRUE, items |-> <<>>]

\* part_002:187  itemIndex * MAX_ITEM_FACES + faceIndex + 1
EncodeFaceId(itemIndex, faceIndex) == itemIndex * MAX_ITEM_FACES + faceIndex + 1

\* part_002:157-189  the unrolled 'position' attribute of one item: for every
\* un-indexed vertex the triple (facePosX, facePosY, encoded face id)
atlasFacePosAttr(itemIndex, faceVertexCount) ==
  [ faceVertexIndex \in 0 .. (faceVertexCount - 1) |->
      LET faceMod   == faceVertexIndex % 3
          facePosX  == faceMod % 2                 \* faceMod & 1
          facePosY  == (faceMod \div 2) % 2        \* (faceMod & 2) >> 1
          faceIndex == (faceVertexIndex - faceMod) \div 3
      IN  <<facePosX, facePosY, EncodeFaceId(itemIndex, faceIndex)>> ]

\* GeometryCheck without the test of the normal attribute (part_002:130-132)
GeometryCheckNoNormal(mesh) ==
  IF ~mesh.isMesh THEN "skip"
  ELSE IF ~mesh.isBufferGeometry THEN "skip"
  ELSE IF mesh.uv2 = "none" THEN "skip"
  ELSE IF ~mesh.hasIndex THEN "expected face index array"
  ELSE IF mesh.uv2 # "attr" THEN "expected uv2 attribute"
  ELSE "accept"

\* part_002:103-136  what the callback does with an object before it builds
\* anything: "skip" (return), an Error message (throw), or "accept"
GeometryCheck(mesh) ==
  IF ~mesh.isMesh THEN "skip"
  ELSE IF ~mesh.isBufferGeometry THEN "skip"
  ELSE IF mesh.uv2 = "none" THEN "skip"
  ELSE IF ~mesh.hasIndex THEN "expected face index array"
  ELSE IF mesh.normal # "attr" THEN "expected normal attribute"
  ELSE IF mesh.uv2 # "attr" THEN "expected uv2 attribute"
  ELSE "accept"

\* MaterialCheck that refuses every lightmap already bound, the baked one
\* included (part_002:220 without '&& material.lightMap !== lightMap')
MaterialCheckAnyLightMap(material, lightMap) ==
  IF material \notin {"lambert", "phong", "standard"}
    THEN "only single Lambert/Phong/standard materials are supported"
  ELSE IF lightMap # "null"
    THEN "do not set your own light map manually on baked scene meshes"
  ELSE "accept"

\* part_002:206-224  the material test made after the item was pushed: an
\* Error message (throw) or "accept"
MaterialCheck(material, lightMap) ==
  IF material \notin {"lambert", "phong", "standard"}
    THEN "only single Lambert/Phong/standard materials are supported"
  ELSE IF lightMap # "null" /\ lightMap # "own"
    THEN "do not set your own light map manually on baked scene meshes"
  ELSE "accept"

\* part_002:138-202  the item pushed for an accepted mesh
NewItem(items, mesh, k) ==
  LET itemIndex       == Len(items)
      faceVertexCount == mesh.indexCount
  IN  [ faceCount     |-> faceVertexCount \div 3,
        perFaceBuffer |-> atlasFacePosAttr(itemIndex, faceVertexCount),
        originalMesh  |-> k ]

Throw(acc, k, message) == [acc EXCEPT !.error = message, !.at = k]

\* part_002:102-227  one call of the traverse callback, on scene object k
TraverseCallback(sc, k, acc) ==
  LET mesh == sc[k]
      geo  == GeometryCheck(mesh)
  IN  IF geo = "skip" THEN acc
      ELSE IF geo # "accept" THEN Throw(acc, k, geo)
      ELSE LET pushed == [acc EXCEPT !.items = Append(@, NewItem(acc.items, mesh, k))]
               mat    == MaterialCheck(mesh.material, acc.lightMaps[k])
           IN  IF mat # "accept" THEN Throw(pushed, k, mat)
               ELSE [pushed EXCEPT !.lightMaps[k] = "own"]

\* Object3D.traverse: the callback on every object in order; a throw ends it
RECURSIVE Traverse(_, _, _)
Traverse(sc, k, acc) ==
  IF k > Len(sc) \/ acc.error # "none" THEN acc
  ELSE Traverse(sc, k + 1, TraverseCallback(sc, k, acc))

\* ------------------------------------------------------------------------
\* IrradianceAtlasMapper: actions
\* ------------------------------------------------------------------------

InitMapper ==
  /\ scene \in Scenes
  /\ materialLightMap = [k \in 1 .. Len(scene) |-> scene[k].lightMap]
  /\ effectRan = FALSE
  /\ inputItems = NullItems
  /\ isComplete = FALSE
  /\ mapperError = "none"
  /\ mapperErrorAt = 0
  /\ completedMaps = <<>>

\* MapperEffect that queues what was collected even when the traversal threw
\* (setInputItems in a finally block)
MapperEffectQueuesPartial ==
  /\ ~effectRan
  /\ effectRan' = TRUE
  /\ LET r == Traverse(scene, 1,
                [items |-> <<>>, lightMaps |-> materialLightMap,
                 error |-> "none", at |-> 0])
     IN  /\ materialLightMap' = r.lightMaps
         /\ mapperError' = r.error
         /\ mapperErrorAt' = r.at
         /\ inputItems' = [isNull |-> FALSE, items |-> r.items]
  /\ UNCHANGED <<scene, isComplete, completedMaps>>
  /\ UNCHANGED <<atlasVars, compositorVars>>

\* part_002:99-231  useEffect(() => {...}, []): runs once after mount; on a
\* throw setInputItems is never reached
MapperEffect ==
  /\ ~effectRan
  /\ effectRan' = TRUE
  /\ LET r == Traverse(scene, 1,
                [items |-> <<>>, lightMaps |-> materialLightMap,
                 error |-> "none", at |-> 0])
     IN  /\ materialLightMap' = r.lightMaps
         /\ mapperError' = r.error
         /\ mapperErrorAt' = r.at
         /\ inputItems' = IF r.error = "none"
                            THEN [isNull |-> FALSE, items |-> r.items]
                            ELSE inputItems
  /\ UNCHANGED <<scene, isComplete, completedMaps>>
  /\ UNCHANGED <<atlasVars, compositorVars>>

\* part_002:44-68, 276-295  what the rasterizer leaves in the float target:
\* every fragment of a face carries that face's interpolated 'position'
\* attribute, whose third component is the same on its three vertices; with
\* the faces laid out apart by the caller's uv2 the ids read back are the ids
\* of the submitted payload vertices, item by item
RasterIds(items) ==
  [ i \in 1 .. Len(items) |->
      { items[i].perFaceBuffer[v][3] : v \in DOMAIN items[i].perFaceBuffer } ]

\* part_002:300-314  the AtlasMap passed to onComplete
MakeAtlasMap(items) ==
  [ items |-> [ i \in 1 .. Len(items) |->
                  [ faceCount    |-> items[i].faceCount,
                    originalMesh |-> items[i].originalMesh ] ],
    data  |-> RasterIds(items) ]

\* MapperRender that hands the map over without recording the completion
\* (neither setIsComplete(true) nor setInputItems(null))
MapperRenderNoCompletion ==
  /\ ~inputItems.isNull
  /\ ~isComplete
  /\ completedMaps' = Append(completedMaps, MakeAtlasMap(inputItems.items))
  /\ UNCHANGED <<scene, materialLightMap, effectRan, mapperError, mapperErrorAt,
                 inputItems, isComplete>>
  /\ UNCHANGED <<atlasVars, compositorVars>>

\* part_002:262-317  the render hook of the atlas scene
MapperRender ==
  /\ ~inputItems.isNull
  /\ ~isComplete
  /\ isComplete' = TRUE
  /\ inputItems' = NullItems
  /\ completedMaps' = Append(completedMaps, MakeAtlasMap(inputItems.items))
  /\ UNCHANGED <<scene, materialLightMap, effectRan, mapperError, mapperErrorAt>>
  /\ UNCHANGED <<atlasVars, compositorVars>>

\* the mapper on its own: nothing listens to onComplete but the record
NextMapper ==
  \/ MapperEffect /\ UNCHANGED managerVars
  \/ MapperRender /\ UNCHANGED managerVars

\* ------------------------------------------------------------------------
\* useMeshWithAtlas / useAtlas (Atlas.tsx): atlas layout
\* ------------------------------------------------------------------------
\* Atlas coordinates are kept in hundredths of a texel (a U coordinate u is
\* kept as u * atlasWidth * 100, a V coordinate v as v * atlasHeight * 100)
\* and face edges in quarters of a world unit: an edge of q quarters spans
\* itemSizeU * (q / 4 / atlasItemMaxDim) * atlasWidth = 0.64 q texels.

\* the (dU, dV) edge lengths of the registered quads, in quarter units
FaceShapes == {<<1, 1>>, <<2, 1>>, <<0, 1>>, <<1, 0>>}

Min(a, b) == IF a < b THEN a ELSE b

\* Math.ceil of n / d for n >= 0, d > 0
CeilDiv(n, d) == (n + d - 1) \div d

\* Atlas.tsx:17-57  computeFaceUV: the face's rectangle; dU and dV are the
\* lengths of the quad's two edges
computeFaceUV(atlasFaceIndex, dU, dV) ==
  LET itemColumn == atlasFaceIndex % itemsPerRow
      itemRow    == atlasFaceIndex \div itemsPerRow
      dUdim      == Min(4 * atlasItemMaxDim, dU)
      dVdim      == Min(4 * atlasItemMaxDim, dV)
      left       == (itemColumn * (itemSizeU + itemUVMargin) * atlasWidth) \div 10
      top        == (itemRow * (itemSizeV + itemUVMargin) * atlasHeight) \div 10
  IN  [ left   |-> left,
        top    |-> top,
        right  |-> left + (itemSizeU * dUdim * atlasWidth) \div (10 * 4 * atlasItemMaxDim),
        bottom |-> top + (itemSizeV * dVdim * atlasHeight) \div (10 * 4 * atlasItemMaxDim) ]

\* Atlas.tsx:119-144  the entries one mesh of faceCount equal quads appends
RECURSIVE PushFaces(_, _, _, _)
PushFaces(info, faceIndex, faceCount, shape) ==
  IF faceIndex >= faceCount THEN info
  ELSE LET uv == computeFaceUV(Len(info), shape[1], shape[2])
       IN  PushFaces(
             Append(info, [ faceIndex      |-> faceIndex,
                            left           |-> uv.left,
                            top            |-> uv.top,
                            right          |-> uv.right,
                            bottom         |-> uv.bottom,
                            pixelFillCount |-> 0 ]),
             faceIndex + 1, faceCount, shape)

\* ------------------------------------------------------------------------
\* useAtlas: the frame callback
\* ------------------------------------------------------------------------

\* JavaScript's NaN; every other number of the callback is >= 0
NaN == 0 - 1

\* a % b
JsMod(a, b) == IF a = NaN \/ b = NaN \/ b = 0 THEN NaN ELSE a % b

\* Math.floor(a / b); a / 0 with a > 0 does not arise: a fill count above 0
\* was reduced modulo rows * cols > 0
JsFloorDiv(a, b) == IF a = NaN \/ b = NaN \/ b = 0 THEN NaN ELSE a \div b

\* a + b
JsAdd(a, b) == IF a = NaN \/ b = NaN THEN NaN ELSE a + b

\* Atlas.tsx:59-90  createAtlasTexture: a texel of the texture as created,
\* black lines every 8 texels on white when pre-filled, all zero otherwise
InitialTexel(fillWithPattern, texel) ==
  LET x == texel % atlasWidth
      y == texel \div atlasWidth
      v == IF x % 8 = 0 \/ y % 8 = 0 THEN 0 ELSE 255
  IN  IF fillWithPattern THEN <<v, v, v>> ELSE <<0, 0, 0>>

\* Atlas.tsx:161-164  the texture stack as created; data holds the texels
\* written since, every other texel is as created
InitialAtlasStack ==
  << [ name |-> "A", fillWithPattern |-> TRUE,  data |-> <<>>, needsUpdate |-> FALSE ],
     [ name |-> "B", fillWithPattern |-> FALSE, data |-> <<>>, needsUpdate |-> FALSE ] >>

\* the content of a texel of a stack entry
TexelAt(entry, texel) ==
  IF texel \in DOMAIN entry.data THEN entry.data[texel]
  ELSE InitialTexel(entry.fillWithPattern, texel)

\* Atlas.tsx:331-335  data.set([ar, ag, ab], offset); needsUpdate = true
WriteTexel(entry, texel, rgb) ==
  [ entry EXCEPT
      !.data = [ t \in (DOMAIN entry.data) \cup {texel} |->
                   IF t = texel THEN rgb ELSE entry.data[t] ],
      !.needsUpdate = TRUE ]

\* a promotion that leaves the stack as it is
PromoteNothing(prev) == prev

\* Atlas.tsx:229-233  promote items up one level, the last one becomes first
Promote(prev) == <<prev[Len(prev)]>> \o SubSeq(prev, 1, Len(prev) - 1)

\* the frame callback returns at once on an empty atlas (Atlas.tsx:198-200)
\* AtlasReady without that test
AtlasReadyAlways(info) == TRUE

\* Atlas.tsx:198-200  wait until atlas is initialized
AtlasReady(info) == Len(info) # 0

\* the probe estimates (ar, ag, ab) a tick may store (Atlas.tsx:316-329)
ProbeColors == {<<128, 128, 128>>}

\* Atlas.tsx:202-335  the body of the frame callback past the readiness test:
\* the new atlasInfo, cursor and stack, the texel resolved, the exception
Tick(info, current, stack, rgb) ==
  IF current >= Len(info)
    \* atlasInfo[current] is undefined: the destructuring throws
    THEN [ info |-> info, current |-> current, stack |-> stack,
           error |-> "TypeError", wrote |-> FALSE, texel |-> 0, promoted |-> FALSE ]
  ELSE
    LET atlasFaceInfo  == info[current + 1]
        \* the callback's own itemSizeU and itemSizeV, in hundredths of a texel
        faceSizeU      == atlasFaceInfo.right - atlasFaceInfo.left
        faceSizeV      == atlasFaceInfo.bottom - atlasFaceInfo.top
        faceTexelCols  == CeilDiv(faceSizeU, 100)
        faceTexelRows  == CeilDiv(faceSizeV, 100)
        fillCount      == atlasFaceInfo.pixelFillCount
        faceTexelX     == JsMod(fillCount, faceTexelCols)
        faceTexelY     == JsFloorDiv(fillCount, faceTexelCols)
        newFillCount   == JsMod(JsAdd(fillCount, 1), faceTexelRows * faceTexelCols)
        faceDone       == newFillCount = 0
        newCurrent     == IF faceDone THEN (current + 1) % Len(info) ELSE current
        promoted       == faceDone /\ newCurrent = 4
        atlasTexelX    == JsAdd(atlasFaceInfo.left \div 100, faceTexelX)
        \* atlasTexelTop = top * atlasWidth (sic)
        atlasTexelY    == JsAdd((atlasFaceInfo.top * atlasWidth) \div (100 * atlasHeight),
                                faceTexelY)
        \* a NaN offset is taken as 0 by TypedArray.set
        texel          == IF atlasTexelX = NaN \/ atlasTexelY = NaN THEN 0
                          ELSE atlasTexelY * atlasWidth + atlasTexelX
        inRange        == texel * 3 + 3 <= 3 * atlasWidth * atlasHeight
        newInfo        == [info EXCEPT ![current + 1].pixelFillCount = newFillCount]
        \* the write goes to the stack this render's closure holds
        written        == IF inRange
                            THEN [stack EXCEPT ![1] = WriteTexel(stack[1], texel, rgb)]
                            ELSE stack
    IN  [ info     |-> newInfo,
          current  |-> newCurrent,
          \* the state update is applied by the re-render that follows
          stack    |-> IF promoted THEN Promote(written) ELSE written,
          error    |-> IF inRange THEN "none" ELSE "RangeError",
          wrote    |-> inRange,
          texel    |-> texel,
          promoted |-> promoted ]

\* Atlas.tsx:341  outputTexture: atlasStack[0].texture, the texture handed to
\* the consumers of this render
outputTexture(stack) == stack[1].name

\* Atlas.tsx:342  lightSceneTexture: atlasStack[1].texture
lightSceneTexture(stack) == stack[2].name

\* ------------------------------------------------------------------------
\* useAtlas: actions
\* ------------------------------------------------------------------------

InitAtlas ==
  /\ atlasInfo = <<>>
  /\ atlasFaceFillIndex = StartFace
  /\ atlasStack = InitialAtlasStack
  /\ tickError = "none"
  /\ idleTicks = 0
  /\ readyTicks = 0
  /\ visited = <<>>
  /\ promotions = 0
  /\ pushedAfterTick = FALSE

IdleMapper ==
  /\ scene = <<>>
  /\ materialLightMap = <<>>
  /\ effectRan = FALSE
  /\ inputItems = NullItems
  /\ isComplete = FALSE
  /\ mapperError = "none"
  /\ mapperErrorAt = 0
  /\ completedMaps = <<>>

\* Atlas.tsx:103-150  useMeshWithAtlas: a mesh of faceCount quads registers
RegisterMesh(faceCount, shape) ==
  /\ Len(atlasInfo) + faceCount <= MaxFaces
  /\ atlasInfo' = PushFaces(atlasInfo, 0, faceCount, shape)
  /\ pushedAfterTick' = (pushedAfterTick \/ readyTicks > 0)
  /\ UNCHANGED <<atlasFaceFillIndex, atlasStack, tickError, idleTicks, readyTicks,
                 visited, promotions, texelVars>>
  /\ UNCHANGED <<mapperVars, compositorVars, managerVars>>

\* Atlas.tsx:196-336  useFrame(..., 10): one call of the frame callback. The
\* callback catches nothing: an exception leaves the render loop, which
\* requests no further frame.
UseFrame(rgb) ==
  /\ tickError = "none"
  /\ IF ~AtlasReady(atlasInfo)
       THEN /\ idleTicks < MaxIdleTicks
            /\ idleTicks' = idleTicks + 1
            /\ UNCHANGED <<atlasInfo, atlasFaceFillIndex, atlasStack, tickError,
                           readyTicks, visited, promotions>>
       ELSE LET r == Tick(atlasInfo, atlasFaceFillIndex, atlasStack, rgb)
            IN  /\ readyTicks < MaxTicks
                /\ UNCHANGED idleTicks
                /\ atlasInfo' = r.info
                /\ atlasFaceFillIndex' = r.current
                /\ atlasStack' = r.stack
                /\ tickError' = r.error
                /\ readyTicks' = readyTicks + 1
                /\ visited' = IF r.wrote
                                THEN [ t \in (DOMAIN visited) \cup {r.texel} |->
                                         IF t \in DOMAIN visited
                                           THEN visited[t] + (IF t = r.texel THEN 1 ELSE 0)
                                           ELSE 1 ]
                                ELSE visited
                /\ promotions' = promotions + (IF r.promoted THEN 1 ELSE 0)
  /\ UNCHANGED <<pushedAfterTick, texelVars>>
  /\ UNCHANGED <<mapperVars, compositorVars, managerVars>>

NextAtlas ==
  \/ \E faceCount \in 1 .. MaxFaces, shape \in FaceShapes : RegisterMesh(faceCount, shape)
  \/ \E rgb \in ProbeColors : UseFrame(rgb)

\* ------------------------------------------------------------------------
\* useAtlas: the frame callback far into a run, on a long face list
\* ------------------------------------------------------------------------

NullLayoutTick ==
  [isNull |-> TRUE, face |-> 0, fillCount |-> 0, wrote |-> FALSE, texel |-> 0,
   error |-> "none"]

\* Atlas.tsx:207-210, 219  faceTexelRows * faceTexelCols of an atlas entry
faceTexelCount(face) ==
  CeilDiv(face.right - face.left, 100) * CeilDiv(face.bottom - face.top, 100)

\* the face list with the fill count of face k at f
WithFill(info, k, f) == [info EXCEPT ![k + 1].pixelFillCount = f]

\* Atlas.tsx:202-235  the callbacks that start on face j with fill count 0
\* take its texels one by one, none throws, and the last moves the cursor on
FaceCompletes(info, j) ==
  /\ faceTexelCount(info[j + 1]) > 0
  /\ \A f \in 0 .. (faceTexelCount(info[j + 1]) - 1), rgb \in ProbeColors :
       Tick(WithFill(info, j, f), j, InitialAtlasStack, rgb).error = "none"

\* Atlas.tsx:194, 222-224  the faces the cursor is on before it comes to
\* face k for the first time: from the start face on, wrapping at the end
FacesBefore(info, k) ==
  IF k >= StartFace
    THEN StartFace .. (k - 1)
    ELSE (StartFace .. (Len(info) - 1)) \cup (0 .. (k - 1))

\* the cursor comes to face k in a run of callbacks over this face list
CursorReaches(info, k) ==
  /\ k < Len(info)
  /\ StartFace < Len(info)
  /\ \A j \in FacesBefore(info, k) : FaceCompletes(info, j)

\* the fill counts face k has while the cursor is on it
FillCounts(info, k) ==
  IF faceTexelCount(info[k + 1]) = 0
    THEN {0, NaN}
    ELSE 0 .. (faceTexelCount(info[k + 1]) - 1)

\* Atlas.tsx:103-150  meshes of equal quads have registered n faces in all
InitLayout ==
  /\ \E n \in 1 .. MaxLayoutFaces, shape \in FaceShapes :
       layoutInfo = PushFaces(<<>>, 0, n, shape)
  /\ layoutTick = NullLayoutTick

IdleLayout ==
  /\ layoutInfo = <<>>
  /\ layoutTick = NullLayoutTick

\* Atlas.tsx:196-336  the frame callback when the cursor has come to face k
\* and f texels of it were taken: the texel it resolves and the exception
LayoutTick(k, f, rgb) ==
  /\ layoutTick.isNull
  /\ CursorReaches(layoutInfo, k)
  /\ f \in FillCounts(layoutInfo, k)
  /\ LET r == Tick(WithFill(layoutInfo, k, f), k, InitialAtlasStack, rgb)
     IN  layoutTick' = [isNull |-> FALSE, face |-> k, fillCount |-> f,
                        wrote |-> r.wrote, texel |-> r.texel, error |-> r.error]
  /\ UNCHANGED <<layoutInfo, quad, probeCam>>
  /\ UNCHANGED <<atlasInfo, atlasFaceFillIndex, atlasStack, tickError, idleTicks,
                 readyTicks, visited, promotions, pushedAfterTick>>
  /\ UNCHANGED <<mapperVars, compositorVars, managerVars>>

NextLayout ==
  \E k \in 0 .. (MaxLayoutFaces - 1), f \in {NaN} \cup (0 .. 1), rgb \in ProbeColors :
    LayoutTick(k, f, rgb)

\* ------------------------------------------------------------------------
\* useAtlas: the probe camera of a texel
\* ------------------------------------------------------------------------

\* the values of one coordinate of a vertex
Coords == {0, 2}

\* the vertex positions of a face: any four points of a plane
Points == {<<x, y, 0>> : x, y \in Coords}

\* the vertex normals of a face
FaceNormals == {<<0, 0, 1>>, <<0, 1, 0>>}

\* Atlas.tsx:249-256  the position and normal attributes of the face's four
\* vertices, by vertex number
Quads == [position : [0 .. 3 -> Points], normal : [0 .. 3 -> FaceNormals]]

VecAdd(a, b) == [i \in 1 .. 3 |-> a[i] + b[i]]

VecSub(a, b) == [i \in 1 .. 3 |-> a[i] - b[i]]

VecScale(k, a) == [i \in 1 .. 3 |-> k * a[i]]

\* Atlas.tsx:245-277  texelPos, UVSteps times: the origin is vertex 2, the U
\* edge goes to vertex 3 and the V edge to vertex 0; pU = pu / UVSteps and
\* pV = pv / UVSteps
texelPos(q, pu, pv) ==
  LET o  == q.position[2]
      dU == VecSub(q.position[3], o)
      dV == VecSub(q.position[0], o)
  IN  VecAdd(VecScale(UVSteps, o), VecAdd(VecScale(pu, dU), VecScale(pv, dV)))

\* Atlas.tsx:256, 281-283, 295  the point probeCam looks at, UVSteps times:
\* texelPos moved by the normal stored first for the face
lookAtTarget(q, pu, pv) ==
  VecAdd(texelPos(q, pu, pv), VecScale(UVSteps, q.normal[0]))

NullProbe ==
  [isNull |-> TRUE, pu |-> 0, pv |-> 0, position |-> <<0, 0, 0>>,
   target |-> <<0, 0, 0>>]

InitProbe ==
  /\ quad \in Quads
  /\ probeCam = NullProbe

IdleProbe ==
  /\ quad = [position |-> [i \in 0 .. 3 |-> <<0, 0, 0>>],
             normal   |-> [i \in 0 .. 3 |-> <<0, 0, 1>>]]
  /\ probeCam = NullProbe

\* Atlas.tsx:243-295  the frame callback places probeCam for the texel whose
\* centre is at (pu / UVSteps, pv / UVSteps) of its face
PlaceProbe(pu, pv) ==
  /\ probeCam' = [isNull |-> FALSE, pu |-> pu, pv |-> pv,
                  position |-> texelPos(quad, pu, pv),
                  target   |-> lookAtTarget(quad, pu, pv)]
  /\ UNCHANGED <<layoutInfo, layoutTick, quad>>
  /\ UNCHANGED <<atlasInfo, atlasFaceFillIndex, atlasStack, tickError, idleTicks,
                 readyTicks, visited, promotions, pushedAfterTick>>
  /\ UNCHANGED <<mapperVars, compositorVars, managerVars>>

NextProbe == \E pu, pv \in 1 .. UVSteps : PlaceProbe(pu, pv)

\* ------------------------------------------------------------------------
\* IrradianceCompositor (IrradianceCompositor.tsx)
\* ------------------------------------------------------------------------

\* a key the factors prop does not hold (factors[name] is undefined)
Undefined == 0 - 1

\* the factor names an application may configure: any string may be a key
\* of the factors prop, the empty one included
AllFactorNames == {"a", ""}

\* the factorName of a renderer that asks for the base buffer (null)
NullName == "<null>"

\* the multipliers an application may configure
Multipliers == {0, 1, 2}

\* the texture filters of the textureFilter prop
TextureFilters == {"undefined", "nearest"}

\* the lightmap widths of the lightMapWidth prop; the height is 1, and the
\* first render gets the smallest width
LightMapWidths == {1, 2}
FirstWidths == {1}

\* the RGB values a renderer may leave in a texel
Colors == {<<0, 0, 0>>, <<1, 1, 1>>}

Scale(rgb, m) == <<rgb[1] * m, rgb[2] * m, rgb[3] * m>>
AddRGB(p, q) == <<p[1] + q[1], p[2] + q[2], p[3] + q[3]>>

\* the layers of the compositor scene, in submission order
Layers(names) == {"base"} \cup names

\* IrradianceCompositor.tsx:55-78  createRendererTexture: a zeroed array
createRendererTexture(w, h) == [t \in 1 .. (w * h) |-> <<0, 0, 0>>]

\* IrradianceCompositor.tsx:158-190  the arrays in creation order: the base
\* array first, then one per factor name
RECURSIVE FactorBuffers(_, _)
FactorBuffers(names, firstId) ==
  IF names = {} THEN [layer \in {} |-> 0]
  ELSE LET key == CHOOSE n \in names : TRUE
       IN  (key :> firstId) @@ FactorBuffers(names \ {key}, firstId + 1)

RendererBuffers(names) == ("base" :> 1) @@ FactorBuffers(names, 2)

\* IrradianceCompositor.tsx:13-39  useIrradianceRendererData(factorName): the
\* layer whose texture and array the renderer gets, or the Error thrown;
\* '!factorName' holds of null and of the empty string
useIrradianceRendererData(names, factorName) ==
  IF factorName = NullName \/ factorName = ""
    THEN [error |-> "none", layer |-> "base"]
  ELSE IF factorName \notin names
    THEN [error |-> "unknown irradiance texture compositor factor", layer |-> "base"]
  ELSE [error |-> "none", layer |-> factorName]

\* JavaScript truthiness of factors && factors[factorName]
Truthy(multiplier) == multiplier # Undefined /\ multiplier # 0

\* IrradianceCompositor.tsx:257-269  live-update of the multiplier uniforms
UpdateUniforms(uniforms, names, factors) ==
  [ layer \in DOMAIN uniforms |->
      IF layer = "base" THEN 1
      ELSE IF layer \in names /\ Truthy(factors[layer]) THEN factors[layer]
      ELSE uniforms[layer] ]

\* IrradianceCompositor.tsx:102-112, 271-274  the target after gl.render: it is
\* cleared, then every layer adds texture2D(map, vUV).rgb * multiplier
RECURSIVE Blend(_, _, _, _)
Blend(layers, arrays, uniforms, t) ==
  IF layers = {} THEN <<0, 0, 0>>
  ELSE LET layer == CHOOSE l \in layers : TRUE
       IN  AddRGB(Scale(arrays[layer][t], uniforms[layer]),
                  Blend(layers \ {layer}, arrays, uniforms, t))

Composite(arrays, uniforms) ==
  [ t \in DOMAIN arrays["base"] |-> Blend(DOMAIN arrays, arrays, uniforms, t) ]

\* orthoTarget recreated whenever the lightMapWidth prop differs from the
\* target's width (useMemo depending on the prop instead of [])
OrthoTargetPerWidth(target, newProps, created) ==
  IF newProps.lightMapWidth # target.width
    THEN [ id |-> created + 1, width |-> newProps.lightMapWidth,
           height |-> target.height, filter |-> target.filter ]
    ELSE target

\* IrradianceCompositor.tsx:227-234  useMemo(() => new WebGLRenderTarget, []):
\* the target a re-render with new props sees
OrthoTargetOnRender(target, newProps, created) == target

InitCompositor ==
  /\ props \in [ lightMapWidth  : FirstWidths,
                 lightMapHeight : {1},
                 textureFilter  : TextureFilters,
                 factors        : [AllFactorNames -> Multipliers \cup {Undefined}] ]
  /\ widthRef = props.lightMapWidth
  /\ heightRef = props.lightMapHeight
  /\ textureFilterRef = props.textureFilter
  /\ factorNames = {n \in AllFactorNames : props.factors[n] # Undefined}
  /\ rendererArrays = [ layer \in Layers(factorNames) |->
                          createRendererTexture(widthRef, heightRef) ]
  /\ rendererBuffer = RendererBuffers(factorNames)
  /\ multiplierUniform = [layer \in Layers(factorNames) |-> 0]
  /\ objectsCreated = Cardinality(Layers(factorNames)) + 1
  /\ orthoTarget = [ id     |-> objectsCreated,
                     width  |-> widthRef,
                     height |-> heightRef,
                     filter |-> IF textureFilterRef = "undefined"
                                  THEN "linear" ELSE textureFilterRef ]
  /\ output = [t \in 1 .. (widthRef * heightRef) |-> <<0, 0, 0>>]
  /\ frameDone = FALSE

\* the compositor of an application without factors, before its first frame
IdleCompositor ==
  /\ props = [ lightMapWidth |-> 1, lightMapHeight |-> 1,
               textureFilter |-> "undefined",
               factors |-> [n \in AllFactorNames |-> Undefined] ]
  /\ widthRef = 1
  /\ heightRef = 1
  /\ textureFilterRef = "undefined"
  /\ factorNames = {}
  /\ rendererArrays = [layer \in {"base"} |-> createRendererTexture(1, 1)]
  /\ rendererBuffer = RendererBuffers({})
  /\ multiplierUniform = [layer \in {"base"} |-> 0]
  /\ objectsCreated = 2
  /\ orthoTarget = [id |-> 2, width |-> 1, height |-> 1, filter |-> "linear"]
  /\ output = [t \in 1 .. 1 |-> <<0, 0, 0>>]
  /\ frameDone = FALSE

\* IrradianceCompositor.tsx:128-247  a re-render with new props: the refs,
\* the factor names and every memo with unchanged dependencies are kept
Rerender(newProps) ==
  /\ newProps # props
  /\ props' = newProps
  /\ orthoTarget' = OrthoTargetOnRender(orthoTarget, newProps, objectsCreated)
  /\ objectsCreated' = IF orthoTarget'.id # orthoTarget.id
                         THEN objectsCreated + 1 ELSE objectsCreated
  /\ frameDone' = FALSE
  /\ UNCHANGED <<widthRef, heightRef, textureFilterRef, factorNames,
                 rendererArrays, rendererBuffer, multiplierUniform, output>>
  /\ UNCHANGED <<mapperVars, atlasVars, managerVars>>

\* the application edits one factor's multiplier, or drops the factor
SetFactor(name, multiplier) ==
  Rerender([props EXCEPT !.factors[name] = multiplier])

\* the application passes another lightMapWidth
SetWidth(w) == Rerender([props EXCEPT !.lightMapWidth = w])

\* the application passes another textureFilter
SetFilter(f) == Rerender([props EXCEPT !.textureFilter = f])

\* IrradianceCompositor.tsx:13-39  a renderer writes a texel of the array it
\* got from useIrradianceRendererData: every layer backed by that array
\* object shows the write
WriteArray(layer, t, rgb) ==
  /\ layer \in DOMAIN rendererArrays
  /\ t \in DOMAIN rendererArrays[layer]
  /\ rendererArrays[layer][t] # rgb
  /\ rendererArrays' = [ l \in DOMAIN rendererArrays |->
                           IF rendererBuffer[l] = rendererBuffer[layer]
                             THEN [rendererArrays[l] EXCEPT ![t] = rgb]
                             ELSE rendererArrays[l] ]
  /\ frameDone' = FALSE
  /\ UNCHANGED <<props, widthRef, heightRef, textureFilterRef, factorNames,
                 rendererBuffer, multiplierUniform, orthoTarget, objectsCreated,
                 output>>

\* a renderer mounted with factorName writes a texel; a renderer whose
\* lookup throws never mounts
RendererWrite(factorName, t, rgb) ==
  LET data == useIrradianceRendererData(factorNames, factorName)
  IN  /\ data.error = "none"
      /\ WriteArray(data.layer, t, rgb)
  /\ UNCHANGED <<mapperVars, atlasVars, managerVars>>

\* IrradianceCompositor.tsx:249-275  useFrame: the compositing render (the
\* scene and material refs are attached by the commit that precedes the
\* first frame)
CompositorFrame ==
  /\ multiplierUniform' = UpdateUniforms(multiplierUniform, factorNames, props.factors)
  /\ output' = Composite(rendererArrays, multiplierUniform')
  /\ frameDone' = TRUE
  /\ UNCHANGED <<props, widthRef, heightRef, textureFilterRef, factorNames,
                 rendererArrays, rendererBuffer, orthoTarget, objectsCreated>>
  /\ UNCHANGED <<mapperVars, atlasVars, managerVars>>

NextCompositor ==
  \/ \E name \in AllFactorNames, m \in Multipliers \cup {Undefined} : SetFactor(name, m)
  \/ \E w \in LightMapWidths : SetWidth(w)
  \/ \E f \in TextureFilters : SetFilter(f)
  \/ \E factorName \in {NullName} \cup AllFactorNames,
        t \in 1 .. (widthRef * heightRef), rgb \in Colors :
       RendererWrite(factorName, t, rgb)
  \/ CompositorFrame

\* ------------------------------------------------------------------------
\* IrradianceSceneManager (IrradianceSceneManager.tsx)
\* ------------------------------------------------------------------------

NullBasics == [isNull |-> TRUE, id |-> 0, items |-> <<>>]

\* the place of an AtlasMap that does not exist
NoAtlasMap == [missing |-> TRUE]

NullWorkbench ==
  [isNull |-> TRUE, id |-> 0, lightSceneItems |-> <<>>, atlasMap |-> NoAtlasMap]

\* IrradianceSceneManager.tsx:47-50  the THREE.Mesh objects the surfaces pass
\* to useMeshRegister, each with its uuid: one the mapper accepts, one it
\* skips, one it rejects and one outside any scene; inScene: an ancestor of
\* the mesh is a THREE.Scene
MeshObjects ==
  { [uuid |-> "uuid-1", mesh |-> PlainMesh, inScene |-> TRUE],
    [uuid |-> "uuid-2", mesh |-> [PlainMesh EXCEPT !.uv2 = "none"], inScene |-> TRUE],
    [uuid |-> "uuid-3", mesh |-> [PlainMesh EXCEPT !.hasIndex = FALSE], inScene |-> TRUE],
    [uuid |-> "uuid-4", mesh |-> PlainMesh, inScene |-> FALSE] }

\* IrradianceSceneManager.tsx:48  mesh: THREE.Mesh | null
NullMesh == [isNull |-> TRUE]

\* IrradianceSceneManager.tsx:49  material: WorkbenchMaterialType | null
NullMaterial == "null"

Materials == {"material"}

\* the arguments of one useMeshRegister call
RegisterProps ==
  [mesh : MeshObjects \cup {NullMesh},
   material : Materials \cup {NullMaterial},
   isMapped : BOOLEAN]

\* the arguments with which the surfaces of the baked scene register: a mesh
\* and a material, mapped
MappedProps ==
  {p \in RegisterProps :
     p.mesh # NullMesh /\ p.material # NullMaterial /\ p.isMapped}

\* IrradianceSceneManager.tsx:62-66  items[uuid] = { mesh, material, isMapped }:
\* an existing key keeps its place, a new one goes last
StageSet(items, p) ==
  LET entry == [uuid |-> p.mesh.uuid, mesh |-> p.mesh.mesh,
                inScene |-> p.mesh.inScene, material |-> p.material,
                isMapped |-> p.isMapped]
  IN  IF \E k \in 1 .. Len(items) : items[k].uuid = entry.uuid
        THEN [k \in 1 .. Len(items) |->
                IF items[k].uuid = entry.uuid THEN entry ELSE items[k]]
        ELSE Append(items, entry)

\* IrradianceSceneManager.tsx:70  delete items[uuid]
StageDelete(items, uuid) ==
  LET Keep(e) == e.uuid # uuid IN SelectSeq(items, Keep)

\* IrradianceSceneManager.tsx:54-66  the effect of useMeshRegister
RegisterEffect(items, p) ==
  IF p.mesh = NullMesh \/ p.material = NullMaterial
    THEN items
    ELSE StageSet(items, p)

\* IrradianceSceneManager.tsx:55-57, 68-71  the cleanup the effect returned
\* when it ran with arguments p: none when it returned early
RegisterCleanup(items, p) ==
  IF p.mesh = NullMesh \/ p.material = NullMaterial
    THEN items
    ELSE StageDelete(items, p.mesh.uuid)

\* IrradianceSceneManager.tsx:72  the dependencies of the effect other than
\* the staging object, which never changes
RegisterDeps(p) == <<p.mesh, p.material>>

\* IrradianceSceneManager.tsx:104-111  the snapshot copy of a staged item
SnapshotItem(item) ==
  [uuid |-> item.uuid, mesh |-> item.mesh, inScene |-> item.inScene,
   material |-> item.material, isMapped |-> item.isMapped,
   needsLightMap |-> item.isMapped]

\* IrradianceSceneManager.tsx:104-111  Object.values(workbenchStage.items).map
SnapshotItems(items) == [k \in 1 .. Len(items) |-> SnapshotItem(items[k])]

\* the manager before any mesh has registered and before any start
IdleManager ==
  /\ registrations = <<>>
  /\ stage = <<>>
  /\ workbenchBasics = NullBasics
  /\ workbench = NullWorkbench
  /\ published = <<>>
  /\ managerError = "none"

\* an Error thrown out of an effect is caught by no error boundary: React
\* unmounts the tree, the manager and its mapper included
Mounted == mapperError = "none" /\ managerError = "none"

\* startHandler that counts every snapshot as the first
NextSnapshotIdRestart(prev) == 1

\* IrradianceSceneManager.tsx:115  id: prev ? prev.id + 1 : 1
NextSnapshotId(prev) == IF prev.isNull THEN 1 ELSE prev.id + 1

\* startHandler that drops the published workbench when a new snapshot starts
WorkbenchOnStartCleared(wb, basics) == NullWorkbench

\* startHandler that publishes the snapshot at once, before any atlas map
WorkbenchOnStartEarly(wb, basics) ==
  [isNull |-> FALSE, id |-> basics.id, lightSceneItems |-> basics.items,
   atlasMap |-> NoAtlasMap]

\* IrradianceSceneManager.tsx:102-118  startHandler sets workbenchBasics only:
\* the workbench state after it
WorkbenchOnStart(wb, basics) == wb

\* IrradianceSceneManager.tsx:137-163  atlasMapHandler: the Error it throws
\* and the workbench it saves
atlasMapHandler(basics, atlasMap) ==
  IF basics.isNull
    THEN [error |-> "unexpected early call", workbench |-> NullWorkbench]
  ELSE IF Len(basics.items) = 0
    \* workbenchBasics.items[0] is undefined
    THEN [error |-> "TypeError", workbench |-> NullWorkbench]
  ELSE IF ~basics.items[1].inScene
    THEN [error |-> "could not get light scene reference", workbench |-> NullWorkbench]
  ELSE [error |-> "none",
        workbench |-> [isNull          |-> FALSE,
                       id              |-> basics.id,
                       lightSceneItems |-> basics.items,
                       atlasMap        |-> atlasMap]]

\* the list without its element h
RemoveAt(seq, h) == SubSeq(seq, 1, h - 1) \o SubSeq(seq, h + 1, Len(seq))

\* IrradianceSceneManager.tsx:47-73  useMeshRegister: a surface mounts and
\* its effect runs
MeshRegister(p) ==
  /\ Mounted
  /\ Len(registrations) < MaxMeshes
  /\ registrations' = Append(registrations, p)
  /\ stage' = RegisterEffect(stage, p)
  /\ UNCHANGED <<workbenchBasics, workbench, published, managerError>>
  /\ UNCHANGED <<mapperVars, atlasVars, compositorVars>>

\* IrradianceSceneManager.tsx:47-73  useMeshRegister: a mounted surface
\* renders again with other arguments; when a dependency changed the cleanup
\* of the last effect runs and then the effect, otherwise neither
MeshReregister(h, p) ==
  /\ Mounted
  /\ h \in 1 .. Len(registrations)
  /\ p # registrations[h]
  /\ registrations' = [registrations EXCEPT ![h] = p]
  /\ stage' = IF RegisterDeps(p) # RegisterDeps(registrations[h])
                THEN RegisterEffect(RegisterCleanup(stage, registrations[h]), p)
                ELSE stage
  /\ UNCHANGED <<workbenchBasics, workbench, published, managerError>>
  /\ UNCHANGED <<mapperVars, atlasVars, compositorVars>>

\* useMeshRegister whose cleanup reaches the snapshot too (startHandler
\* keeping the staging object itself, not a copy of its values)
MeshUnregisterShared(h) ==
  /\ Mounted
  /\ h \in 1 .. Len(registrations)
  /\ registrations' = RemoveAt(registrations, h)
  /\ stage' = RegisterCleanup(stage, registrations[h])
  /\ workbenchBasics' =
       [workbenchBasics EXCEPT !.items = RegisterCleanup(@, registrations[h])]
  /\ UNCHANGED <<workbench, published, managerError>>
  /\ UNCHANGED <<mapperVars, atlasVars, compositorVars>>

\* IrradianceSceneManager.tsx:68-71  useMeshRegister: a surface unmounts and
\* the cleanup of its last effect runs
MeshUnregister(h) ==
  /\ Mounted
  /\ h \in 1 .. Len(registrations)
  /\ registrations' = RemoveAt(registrations, h)
  /\ stage' = RegisterCleanup(stage, registrations[h])
  /\ UNCHANGED <<workbenchBasics, workbench, published, managerError>>
  /\ UNCHANGED <<mapperVars, atlasVars, compositorVars>>

\* startHandler under which the mapper is not re-created (no key on the
\* mapper element): the mapper that is mounted goes on
StartHandlerKeepsMapper ==
  /\ Mounted
  /\ workbenchBasics.id < MaxStarts
  /\ workbenchBasics' = [isNull |-> FALSE,
                         id     |-> NextSnapshotId(workbenchBasics),
                         items  |-> SnapshotItems(stage)]
  /\ workbench' = WorkbenchOnStart(workbench, workbenchBasics')
  /\ IF workbenchBasics.isNull
       THEN /\ scene' = [k \in 1 .. Len(stage) |-> stage[k].mesh]
            /\ materialLightMap' = [k \in 1 .. Len(stage) |-> stage[k].mesh.lightMap]
            /\ UNCHANGED <<effectRan, inputItems, isComplete, mapperError,
                           mapperErrorAt, completedMaps>>
       ELSE UNCHANGED mapperVars
  /\ UNCHANGED <<registrations, stage, published, managerError>>
  /\ UNCHANGED <<atlasVars, compositorVars>>

\* IrradianceSceneManager.tsx:102-118, 171-179  startHandler, called by the
\* children or by the auto-start timer: the snapshot gets the next id and the
\* mapper is re-created under the new key, over the snapshot's meshes
StartHandler ==
  /\ Mounted
  /\ workbenchBasics.id < MaxStarts
  /\ workbenchBasics' = [isNull |-> FALSE,
                         id     |-> NextSnapshotId(workbenchBasics),
                         items  |-> SnapshotItems(stage)]
  /\ workbench' = WorkbenchOnStart(workbench, workbenchBasics')
  /\ scene' = [k \in 1 .. Len(stage) |-> stage[k].mesh]
  /\ materialLightMap' = [k \in 1 .. Len(stage) |-> stage[k].mesh.lightMap]
  /\ effectRan' = FALSE
  /\ inputItems' = NullItems
  /\ isComplete' = FALSE
  /\ mapperError' = "none"
  /\ mapperErrorAt' = 0
  /\ completedMaps' = <<>>
  /\ UNCHANGED <<registrations, stage, published, managerError>>
  /\ UNCHANGED <<atlasVars, compositorVars>>

\* the mount effect of the mapper the manager renders
ManagerMapperEffect ==
  /\ Mounted
  /\ ~workbenchBasics.isNull
  /\ MapperEffect
  /\ UNCHANGED managerVars

\* the render hook of the mapper the manager renders: onComplete is
\* atlasMapHandler of the render that passed it
ManagerMapperRender ==
  /\ Mounted
  /\ ~workbenchBasics.isNull
  /\ MapperRender
  /\ LET h == atlasMapHandler(workbenchBasics, completedMaps'[Len(completedMaps')])
     IN  /\ managerError' = h.error
         /\ workbench' = IF h.error = "none" THEN h.workbench ELSE workbench
         /\ published' = IF h.error = "none"
                           THEN Append(published, h.workbench.id)
                           ELSE published
  /\ UNCHANGED <<registrations, stage, workbenchBasics>>

NextManager ==
  \/ \E p \in MappedProps : MeshRegister(p)
  \/ \E h \in 1 .. MaxMeshes : MeshUnregister(h)
  \/ StartHandler
  \/ ManagerMapperEffect
  \/ ManagerMapperRender

\* the surfaces alone: every mount, re-render and unmount of useMeshRegister
NextRegister ==
  \/ \E p \in RegisterProps : MeshRegister(p)
  \/ \E h \in 1 .. MaxMeshes, p \in RegisterProps : MeshReregister(h, p)
  \/ \E h \in 1 .. MaxMeshes : MeshUnregister(h)

\* ------------------------------------------------------------------------
\* Specifications
\* ------------------------------------------------------------------------

\* the mapper of a light scene, beside an unused atlas, compositor and manager
MapperInit == InitMapper /\ InitAtlas /\ IdleLayout /\ IdleProbe /\ IdleCompositor /\ IdleManager

MapperSpec == MapperInit /\ [][NextMapper]_vars

\* the atlas renderer, beside an unused mapper, compositor and manager
AtlasInit == IdleMapper /\ InitAtlas /\ IdleLayout /\ IdleProbe /\ IdleCompositor /\ IdleManager

AtlasSpec == AtlasInit /\ [][NextAtlas]_vars

\* the compositor, beside an unused mapper, atlas and manager
CompositorInit == IdleMapper /\ InitAtlas /\ IdleLayout /\ IdleProbe /\ InitCompositor /\ IdleManager

CompositorSpec == CompositorInit /\ [][NextCompositor]_vars

\* the scene manager and the mapper it renders, beside an unused atlas and
\* compositor
ManagerInit == IdleMapper /\ InitAtlas /\ IdleLayout /\ IdleProbe /\ IdleCompositor /\ IdleManager

ManagerSpec == ManagerInit /\ [][NextManager]_vars

\* the surfaces that register with the manager, with every argument they can
\* pass, beside an unused mapper, atlas and compositor
RegisterInit == IdleMapper /\ InitAtlas /\ IdleLayout /\ IdleProbe /\ IdleCompositor /\ IdleManager

RegisterSpec == RegisterInit /\ [][NextRegister]_vars

\* one frame callback on a face list of any length, beside an unused
\* mapper, compositor and manager
LayoutInit ==
  IdleMapper /\ InitAtlas /\ InitLayout /\ IdleProbe /\ IdleCompositor /\ IdleManager

LayoutSpec == LayoutInit /\ [][NextLayout]_vars

\* the probe camera of one texel of any face, beside an unused mapper,
\* compositor and manager
ProbeInit ==
  IdleMapper /\ InitAtlas /\ IdleLayout /\ InitProbe /\ IdleCompositor /\ IdleManager

ProbeSpec == ProbeInit /\ [][NextProbe]_vars

\* ------------------------------------------------------------------------
\* IrradianceAtlasMapper: claims
\* ------------------------------------------------------------------------

\* the decoding of an encoded face id
DecodeFace(id) == (id - 1) % MAX_ITEM_FACES
DecodeItem(id) == (id - 1) \div MAX_ITEM_FACES

\* the error classes, by the messages the mapper throws
UnsupportedGeometry ==
  {"expected face index array", "expected normal attribute", "expected uv2 attribute"}
MaterialConflict ==
  {"only single Lambert/Phong/standard materials are supported",
   "do not set your own light map manually on baked scene meshes"}

\* the traversal got as far as scene object k
Traversed(k) == effectRan /\ (mapperErrorAt = 0 \/ k <= mapperErrorAt)

\* object k is a mesh the mapper can unroll
Participates(k) ==
  /\ scene[k].isMesh /\ scene[k].isBufferGeometry
  /\ scene[k].uv2 = "attr" /\ scene[k].hasIndex /\ scene[k].normal = "attr"

\* the items of every list the mapper has produced: queued or handed over
ItemLists ==
  {inputItems.items} \cup {completedMaps[m].items : m \in 1 .. Len(completedMaps)}

SumFaceCounts(items) ==
  LET RECURSIVE Sum(_)
      Sum(i) == IF i = 0 THEN 0 ELSE items[i].faceCount + Sum(i - 1)
  IN  Sum(Len(items))

\* C1: every encoded id of the queued items decodes to the (item, face) pair
\* it was encoded from, and no two (item, face) pairs share an id.
C1_RoundTrip ==
  LET items == inputItems.items
  IN  /\ \A i \in 1 .. Len(items) :
           \A v \in DOMAIN items[i].perFaceBuffer :
             LET id == items[i].perFaceBuffer[v][3]
             IN  /\ DecodeFace(id) = v \div 3
                 /\ DecodeItem(id) = i - 1
      /\ Cardinality(UNION {RasterIds(items)[i] : i \in 1 .. Len(items)})
           = SumFaceCounts(items)

\* C2: a mesh of N triangles gets N distinct non-zero ids, one per triangle
\* and the same on its three vertices, faceCount = N, and every id decodes to
\* the mesh's position in the AtlasMap's items and to a triangle of the mesh;
\* a lone two-triangle mesh gives one item, faceCount 2 and ids {1, 2}.
C2_FaceIds ==
  /\ \A i \in 1 .. Len(inputItems.items) :
       LET buf == inputItems.items[i].perFaceBuffer
       IN  \A v \in DOMAIN buf : buf[v][3] = buf[3 * (v \div 3)][3]
  /\ \A m \in 1 .. Len(completedMaps) :
       LET map == completedMaps[m]
       IN  /\ \A i \in 1 .. Len(map.items) :
                LET N == scene[map.items[i].originalMesh].indexCount \div 3
                IN  /\ map.items[i].faceCount = N
                    /\ Cardinality(map.data[i]) = N
                    /\ \A id \in map.data[i] :
                         /\ id # 0
                         /\ DecodeItem(id) = i - 1
                         /\ DecodeFace(id) \in 0 .. (N - 1)
                    /\ {DecodeFace(id) : id \in map.data[i]} = 0 .. (N - 1)
           /\ (scene = <<[PlainMesh EXCEPT !.indexCount = 6]>>) =>
                /\ Len(map.items) = 1
                /\ map.items[1].faceCount = 2
                /\ map.data[1] = {1, 2}

\* C3: a mesh of exactly MAX_ITEM_FACES faces is accepted; a mesh of more
\* faces makes the pass fail with CapacityExceeded and emit no AtlasMap.
C3_Capacity ==
  \A k \in 1 .. Len(scene) :
    (Traversed(k) /\ Participates(k)) =>
      /\ (scene[k].indexCount \div 3 > MAX_ITEM_FACES) =>
           /\ mapperErrorAt = k
           /\ mapperError = "CapacityExceeded"
           /\ inputItems.isNull
           /\ completedMaps = <<>>
      /\ (scene[k].indexCount \div 3 = MAX_ITEM_FACES /\ mapperErrorAt = k) =>
           mapperError \in MaterialConflict

\* C9 as stated: every traversed mesh that lacks the index buffer, the normal
\* attribute or the uv2 attribute raises UnsupportedGeometry.
C9_Original ==
  \A k \in 1 .. Len(scene) :
    ( /\ Traversed(k)
      /\ scene[k].isMesh /\ scene[k].isBufferGeometry
      /\ (~scene[k].hasIndex \/ scene[k].normal = "none" \/ scene[k].uv2 = "none") )
    => (mapperErrorAt = k /\ mapperError \in UnsupportedGeometry)

\* C9 as amended: a traversed mesh that has a uv2 attribute and lacks the
\* index buffer or the normal attribute raises UnsupportedGeometry at once
\* and nothing is queued or emitted; a traversed mesh with no uv2 attribute
\* raises nothing and is left out of every item list.
C9_UnsupportedGeometry ==
  \A k \in 1 .. Len(scene) :
    (Traversed(k) /\ scene[k].isMesh /\ scene[k].isBufferGeometry) =>
      /\ (scene[k].uv2 # "none" /\ (~scene[k].hasIndex \/ scene[k].normal = "none")) =>
           /\ mapperErrorAt = k
           /\ mapperError \in UnsupportedGeometry
           /\ inputItems.isNull
           /\ completedMaps = <<>>
      /\ (scene[k].uv2 = "none") =>
           /\ mapperErrorAt # k
           /\ \A items \in ItemLists :
                \A i \in 1 .. Len(items) : items[i].originalMesh # k

\* C9 witness: a mesh without uv2 was passed over and a later mesh without
\* an index buffer stopped the pass.
C9_Witness ==
  /\ effectRan
  /\ \E j, k \in 1 .. Len(scene) :
       /\ j < k
       /\ scene[j].isMesh /\ scene[j].isBufferGeometry /\ scene[j].uv2 = "none"
       /\ scene[k].uv2 = "attr" /\ ~scene[k].hasIndex
       /\ mapperErrorAt = k
       /\ mapperError = "expected face index array"

\* C10: a participating mesh whose material is missing, an array, or not
\* Lambert/Phong/Standard, or carries another lightmap than the baked one,
\* raises MaterialConflict; with no lightmap or the baked one it is accepted
\* and ends up bound to the baked lightmap.
C10_MaterialConflict ==
  \A k \in 1 .. Len(scene) :
    (Traversed(k) /\ Participates(k)) =>
      LET conflict == \/ scene[k].material \notin {"lambert", "phong", "standard"}
                      \/ scene[k].lightMap = "other"
      IN  /\ conflict => (mapperErrorAt = k /\ mapperError \in MaterialConflict)
          /\ ~conflict => (mapperErrorAt # k /\ materialLightMap[k] = "own")

\* C10 witness: a mesh already bound to the baked lightmap was accepted and a
\* later mesh bound to another lightmap stopped the pass.
C10_Witness ==
  /\ effectRan
  /\ \E j, k \in 1 .. Len(scene) :
       /\ j < k
       /\ Participates(j) /\ scene[j].lightMap = "own" /\ materialLightMap[j] = "own"
       /\ Participates(k) /\ scene[k].lightMap = "other"
       /\ mapperErrorAt = k
       /\ mapperError = "do not set your own light map manually on baked scene meshes"

\* C11: once a mesh of the pass has raised a validation error nothing is
\* queued for rasterization and no AtlasMap is handed to onComplete, now or
\* later, whatever was collected from the meshes before the failing one.
C11_AbortsWholePass ==
  (mapperError # "none") =>
    /\ inputItems.isNull
    /\ ~isComplete
    /\ completedMaps = <<>>
    /\ ~ENABLED MapperRender

\* C11 witness: a participating mesh was unrolled and bound, and a later
\* mesh stopped the pass.
C11_Witness ==
  /\ effectRan
  /\ mapperErrorAt = 2
  /\ Participates(1)
  /\ materialLightMap[1] = "own"

\* C12: after a pass that stopped with a validation error the lightmap slot
\* of every mesh's material is what it was before the pass.
C12_NoPartialLightMap ==
  (mapperError # "none") =>
    \A k \in 1 .. Len(scene) : materialLightMap[k] = scene[k].lightMap

\* C14: the atlas is handed to onComplete at most once; after completion
\* the render hook has nothing queued and does nothing more.
C14_CompletesOnce ==
  /\ Len(completedMaps) <= 1
  /\ isComplete =>
       /\ Len(completedMaps) = 1
       /\ inputItems.isNull
       /\ ~ENABLED MapperRender

\* C14 witness: the mapper has rasterized a non-empty atlas and handed it on.
C14_Witness ==
  /\ isComplete
  /\ Len(completedMaps) = 1
  /\ Len(completedMaps[1].items) > 0

\* ------------------------------------------------------------------------
\* useAtlas: claims
\* ------------------------------------------------------------------------

\* C4: a frame callback that finds the atlas empty changes no texel of either
\* texture, moves neither the cursor nor a fill count, promotes nothing and
\* raises no error.
C4_NotReadyNoOp ==
  [][ (idleTicks' # idleTicks \/ (Len(atlasInfo) = 0 /\ readyTicks' # readyTicks)) =>
        /\ atlasStack' = atlasStack
        /\ atlasFaceFillIndex' = atlasFaceFillIndex
        /\ atlasInfo' = atlasInfo
        /\ promotions' = promotions
        /\ visited' = visited
        /\ tickError' = "none" ]_vars

\* C4 witness: a frame callback has run on the empty atlas.
C4_Witness == idleTicks > 0 /\ Len(atlasInfo) = 0

\* the texel columns and rows of a face, as the frame callback derives them
FaceCols(face) == CeilDiv(face.right - face.left, 100)
FaceRows(face) == CeilDiv(face.bottom - face.top, 100)

\* the occupied texels of the atlas: the block of every face
OccupiedTexels ==
  UNION { { ((atlasInfo[i].top \div 100) + y) * atlasWidth + (atlasInfo[i].left \div 100) + x :
              x \in 0 .. (FaceCols(atlasInfo[i]) - 1),
              y \in 0 .. (FaceRows(atlasInfo[i]) - 1) } : i \in 1 .. Len(atlasInfo) }

\* C5: on a fresh renderer and a non-empty atlas of K occupied texels, once
\* K ready ticks have run every occupied texel has been visited exactly once
\* and nothing else, the cursor is on the face it started at and every fill
\* count is 0.
C5_CoverageCycle ==
  ( /\ Len(atlasInfo) > 0
    /\ ~pushedAfterTick
    /\ readyTicks = Cardinality(OccupiedTexels) )
  => /\ DOMAIN visited = OccupiedTexels
     /\ \A t \in DOMAIN visited : visited[t] = 1
     /\ atlasFaceFillIndex = StartFace
     /\ \A i \in 1 .. Len(atlasInfo) : atlasInfo[i].pixelFillCount = 0
     /\ tickError = "none"

\* the texel of a face at fill offset n, in row-major order
FaceTexel(face, n) ==
  ((face.top \div 100) + (n \div FaceCols(face))) * atlasWidth
    + (face.left \div 100) + (n % FaceCols(face))

\* visited with one more visit of texel t
VisitedWith(t) ==
  [ u \in (DOMAIN visited) \cup {t} |->
      (IF u \in DOMAIN visited THEN visited[u] ELSE 0) + (IF u = t THEN 1 ELSE 0) ]

\* C18: every ready tick visits the texel of the current face at the face's
\* fill offset, in row-major order, and moves the offset on by one; the face
\* index changes only at the tick that takes the face's last texel, and
\* then to (face + 1) mod faceCount; nothing else moves.
C18_FaceMajorOrder ==
  [][ (readyTicks' # readyTicks) =>
        /\ tickError' = "none"
        /\ atlasFaceFillIndex < Len(atlasInfo)
        /\ LET current == atlasFaceFillIndex
               face    == atlasInfo[current + 1]
               texels  == FaceCols(face) * FaceRows(face)
               n       == face.pixelFillCount
           IN  /\ texels > 0
               /\ n \in 0 .. (texels - 1)
               /\ visited' = VisitedWith(FaceTexel(face, n))
               /\ atlasInfo' = [atlasInfo EXCEPT ![current + 1].pixelFillCount = (n + 1) % texels]
               /\ atlasFaceFillIndex' =
                    IF n + 1 = texels THEN (current + 1) % Len(atlasInfo) ELSE current ]_vars

\* a ready tick that ran to its end
TickStep == readyTicks' # readyTicks /\ tickError' = "none"

\* the tick takes the last texel of the last face of the atlas: the cursor
\* wraps to the first face, first texel
WrapStep ==
  /\ TickStep
  /\ atlasFaceFillIndex = Len(atlasInfo) - 1
  /\ atlasInfo'[Len(atlasInfo)].pixelFillCount = 0
  /\ atlasFaceFillIndex' = 0

\* C19: the buffers are promoted in exactly the ticks in which the cursor
\* wraps from the last face of the atlas to the first face, first texel.
C19_PromotionOnWrap ==
  [][ (promotions' # promotions) <=> WrapStep ]_vars

\* the buffers whose texels the step changed
WrittenBuffers ==
  { atlasStack[i].name : i \in { j \in 1 .. Len(atlasStack) :
      \E k \in 1 .. Len(atlasStack') :
        /\ atlasStack'[k].name = atlasStack[j].name
        /\ atlasStack'[k].data # atlasStack[j].data } }

\* C20: no tick writes the buffer that is the exposed output texture, and a
\* promotion makes the buffer the finished pass was written to the exposed
\* output and leaves the other buffer for the next pass.
C20_OutputNotWritten ==
  [][ TickStep =>
        /\ outputTexture(atlasStack) \notin WrittenBuffers
        /\ (promotions' # promotions) =>
             /\ WrittenBuffers = {outputTexture(atlasStack')}
             /\ outputTexture(atlasStack') # outputTexture(atlasStack) ]_vars

\* the entry of a stack that holds the buffer of that name
EntryOf(stack, name) == stack[CHOOSE i \in 1 .. Len(stack) : stack[i].name = name]

\* C21: every ready tick writes exactly one texel slot of the buffer being
\* filled, storing the probe estimate whatever the slot held, marks that
\* buffer's texture dirty and leaves its other texels and the other buffer
\* as they were.
C21_OneTexelPerTick ==
  [][ (readyTicks' # readyTicks) =>
        \E t \in DOMAIN visited', rgb \in ProbeColors :
          /\ visited' = VisitedWith(t)
          /\ EntryOf(atlasStack', atlasStack[1].name) = WriteTexel(atlasStack[1], t, rgb)
          /\ TexelAt(EntryOf(atlasStack', atlasStack[1].name), t) = rgb
          /\ EntryOf(atlasStack', atlasStack[1].name).needsUpdate
          /\ \A u \in (DOMAIN visited') \cup OccupiedTexels :
               u # t => TexelAt(EntryOf(atlasStack', atlasStack[1].name), u)
                          = TexelAt(atlasStack[1], u)
          /\ EntryOf(atlasStack', atlasStack[2].name) = atlasStack[2] ]_vars

\* C26: on every ready tick the cursor is an index of the atlas face list
\* (0 <= index < number of faces), whatever the number of faces, so no tick
\* reads a missing entry.
C26_CursorInRange ==
  /\ [][ (readyTicks' # readyTicks) =>
           (0 <= atlasFaceFillIndex /\ atlasFaceFillIndex < Len(atlasInfo)) ]_vars
  /\ [](tickError # "TypeError")

\* the fill count of the face under the cursor
CursorFill == atlasInfo[atlasFaceFillIndex + 1].pixelFillCount

\* C28: every ready tick that runs to its end brings the face under the
\* cursor nearer its end: it moves the cursor on to another face, or it
\* raises that face's fill count, which stays below the face's texel count;
\* so each face, a degenerate one too, is left after finitely many ticks and
\* promotion recurs.
C28_EveryFaceFinishes ==
  [][ TickStep =>
        \/ atlasFaceFillIndex' # atlasFaceFillIndex
        \/ /\ atlasInfo'[atlasFaceFillIndex + 1].pixelFillCount > CursorFill
           /\ atlasInfo'[atlasFaceFillIndex + 1].pixelFillCount <
                FaceCols(atlasInfo[atlasFaceFillIndex + 1])
                  * FaceRows(atlasInfo[atlasFaceFillIndex + 1]) ]_vars

\* a face whose fill count became NaN keeps the cursor: every later tick
\* leaves the cursor and the NaN where they are
NaNFaceHoldsCursor ==
  [][ (TickStep /\ CursorFill = NaN) =>
        /\ atlasFaceFillIndex' = atlasFaceFillIndex
        /\ atlasInfo'[atlasFaceFillIndex + 1].pixelFillCount = NaN ]_vars

\* a tick that wrote a texel
WriteStep == TickStep /\ visited' # visited

\* C29: every write goes to the buffer that is first in the stack when the
\* tick starts, the write of the promoting tick too; between promotions
\* that buffer stays the same, and after a promotion the other buffer is
\* first, so the next pass writes there.
C29_PassWritesOneBuffer ==
  [][ WriteStep =>
        /\ \E t \in DOMAIN visited', rgb \in ProbeColors :
             /\ visited' = VisitedWith(t)
             /\ EntryOf(atlasStack', atlasStack[1].name).data
                  = WriteTexel(atlasStack[1], t, rgb).data
        /\ EntryOf(atlasStack', atlasStack[2].name).data = atlasStack[2].data
        /\ (promotions' = promotions) => (atlasStack'[1].name = atlasStack[1].name)
        /\ (promotions' # promotions) =>
             /\ atlasStack'[1].name = atlasStack[2].name
             /\ atlasStack'[2].name = atlasStack[1].name ]_vars

\* C29 witness: a pass was promoted and the pass after it has written, so
\* both buffers hold written texels.
C29_Witness ==
  /\ promotions >= 1
  /\ DOMAIN atlasStack[1].data # {}
  /\ DOMAIN atlasStack[2].data # {}

\* the bilinear interpolation of four corner values, UVSteps * UVSteps
\* times: vertex 2 is the corner (0,0) of the quad, vertex 3 is (1,0),
\* vertex 0 is (0,1) and vertex 1 is (1,1) (Atlas.tsx:127-132)
Bilinear(c, pu, pv) ==
  VecAdd(VecAdd(VecScale((UVSteps - pu) * (UVSteps - pv), c[2]),
                VecScale(pu * (UVSteps - pv), c[3])),
         VecAdd(VecScale((UVSteps - pu) * pv, c[0]),
                VecScale(pu * pv, c[1])))

\* C25: the position resolved for the texel at local coordinates (u, v) is
\* the bilinear interpolation of the four corner positions of the face (so
\* at (1,1) it is the fourth corner), and the normal the probe looks along
\* is the bilinear interpolation of the four corner normals.
C25_BilinearProbe ==
  ~probeCam.isNull =>
    /\ VecScale(UVSteps, probeCam.position)
         = Bilinear(quad.position, probeCam.pu, probeCam.pv)
    /\ VecScale(UVSteps, VecSub(probeCam.target, probeCam.position))
         = Bilinear(quad.normal, probeCam.pu, probeCam.pv)

\* C27: whatever the number of registered faces, the texel a callback
\* resolves lies inside the atlas buffer and its write is not rejected.
C27_WriteInsideBuffer ==
  ~layoutTick.isNull =>
    /\ layoutTick.error # "RangeError"
    /\ layoutTick.wrote
    /\ layoutTick.texel \div atlasWidth < atlasHeight

\* ------------------------------------------------------------------------
\* IrradianceCompositor: claims
\* ------------------------------------------------------------------------

\* the factor layers whose multiplier the application configures right now
ConfiguredFactors == {n \in factorNames : props.factors[n] # Undefined}

\* the sum the claim prescribes for texel t: base * 1 plus every configured
\* factor's texel times its configured multiplier
RECURSIVE ConfiguredSum(_, _)
ConfiguredSum(names, t) ==
  IF names = {} THEN Scale(rendererArrays["base"][t], 1)
  ELSE LET n == CHOOSE x \in names : TRUE
       IN  AddRGB(Scale(rendererArrays[n][t], props.factors[n]),
                  ConfiguredSum(names \ {n}, t))

\* C6: after a frame every output texel is the base texel times 1 plus each
\* factor's texel times that factor's configured multiplier, on a cleared
\* target; base (1,1,1) with one factor (0,0,0) at multiplier 2 gives (1,1,1).
C6_Compositing ==
  (frameDone /\ ConfiguredFactors = factorNames) =>
    /\ \A t \in DOMAIN output : output[t] = ConfiguredSum(factorNames, t)
    /\ ( /\ factorNames = {"a"}
         /\ props.factors["a"] = 2
         /\ \A t \in DOMAIN output :
              rendererArrays["base"][t] = <<1, 1, 1>> /\ rendererArrays["a"][t] = <<0, 0, 0>> )
       => \A t \in DOMAIN output : output[t] = <<1, 1, 1>>

\* C7: at the end of every frame each factor layer's effective multiplier is
\* the multiplier configured at that moment, zero included.
C7_MultiplierTakesEffect ==
  frameDone => \A n \in ConfiguredFactors : multiplierUniform[n] = props.factors[n]

\* C8: the texture handed to consumers is the same object over every frame
\* and every re-render of the compositor.
C8_StableOutputTexture == [][orthoTarget'.id = orthoTarget.id]_vars

\* C8 witness: the compositor was re-rendered with another size, another
\* filter and a factor it did not start with, and has composited since.
C8_Witness ==
  /\ frameDone
  /\ props.lightMapWidth # widthRef
  /\ props.textureFilter # textureFilterRef
  /\ \E n \in AllFactorNames : n \notin factorNames /\ props.factors[n] # Undefined
  /\ \E t \in DOMAIN output : output[t] # <<0, 0, 0>>

\* C17: the base buffer and the buffers of the configured factor names are
\* pairwise distinct objects that never change; a renderer asking with
\* factor name null gets the base buffer and one asking with a configured
\* name f gets f's buffer, so no two of these renderers get the same buffer.
C17_OwnBuffers ==
  LET Got(name) == useIrradianceRendererData(factorNames, name)
      Buffer(name) == rendererBuffer[Got(name).layer]
  IN  /\ DOMAIN rendererBuffer = Layers(factorNames)
      /\ \A l1, l2 \in DOMAIN rendererBuffer :
           l1 # l2 => rendererBuffer[l1] # rendererBuffer[l2]
      /\ rendererBuffer = RendererBuffers(factorNames)
      /\ Got(NullName) = [error |-> "none", layer |-> "base"]
      /\ \A f \in factorNames : Got(f) = [error |-> "none", layer |-> f]
      /\ \A f, g \in {NullName} \cup factorNames : f # g => Buffer(f) # Buffer(g)

\* ------------------------------------------------------------------------
\* useMeshRegister: claims
\* ------------------------------------------------------------------------

\* the mounted registrations of a mesh that passed a mesh and a material
RegistrationsOf(uuid) ==
  {h \in DOMAIN registrations :
     /\ registrations[h].mesh # NullMesh
     /\ registrations[h].material # NullMaterial
     /\ registrations[h].mesh.uuid = uuid}

\* C24: the staging set has an entry for a mesh exactly when a registration
\* with a mesh and a material is mounted for it, and the entry holds the
\* mesh, material and isMapped flag that registration passes now.
C24_StageMatchesRegistrations ==
  /\ \A m \in MeshObjects :
       (\E k \in 1 .. Len(stage) : stage[k].uuid = m.uuid)
         <=> RegistrationsOf(m.uuid) # {}
  /\ \A k \in 1 .. Len(stage) :
       \E h \in RegistrationsOf(stage[k].uuid) :
         /\ stage[k].mesh = registrations[h].mesh.mesh
         /\ stage[k].material = registrations[h].material
         /\ stage[k].isMapped = registrations[h].isMapped

\* ------------------------------------------------------------------------
\* IrradianceSceneManager: claims
\* ------------------------------------------------------------------------

\* the step in which the mounted mapper completes and its callback succeeds
CompletionStep == ~isComplete /\ isComplete' /\ managerError' = "none"

\* C13: while the atlas of the latest snapshot has failed or has not
\* completed, no Workbench of that snapshot is published, and every step
\* other than a successful completion leaves the published Workbench (id,
\* items, AtlasMap) as it was.
C13_KeepsPublishedWorkbench ==
  /\ []( (~workbenchBasics.isNull /\ (~isComplete \/ ~Mounted)) =>
           (workbench.isNull \/ workbench.id < workbenchBasics.id) )
  /\ [][ ~CompletionStep => workbench' = workbench ]_vars

\* C13 witness: the first snapshot was published and the atlas of the
\* second one failed on a mesh.
C13_Witness ==
  /\ ~workbench.isNull
  /\ workbench.id = 1
  /\ workbenchBasics.id = 2
  /\ mapperError # "none"

\* C15: every start creates a snapshot whose id is the previous one's plus
\* 1 (1 for the first), and the id of the published Workbench never
\* decreases.
C15_SnapshotIds ==
  /\ [][ StartHandler =>
           /\ ~workbenchBasics'.isNull
           /\ workbenchBasics'.id = (IF workbenchBasics.isNull THEN 0 ELSE workbenchBasics.id) + 1 ]_vars
  /\ [][ workbench'.id >= workbench.id /\ workbench'.id <= workbenchBasics'.id ]_vars

\* C15 witness: two snapshots were started and the second one is published.
C15_Witness ==
  /\ workbenchBasics.id = 2
  /\ ~workbench.isNull
  /\ workbench.id = 2

\* the uuids of the meshes of an item list, in order
UuidsOf(items) == [k \in 1 .. Len(items) |-> items[k].uuid]

\* C22: a step that registers or de-registers a mesh changes neither the
\* snapshot nor the published Workbench; a start takes a snapshot of exactly
\* the meshes staged at that moment; the items of a snapshot and of a
\* published Workbench stay as they are for as long as its id stays.
C22_SnapshotFrozen ==
  /\ [][ (stage' # stage \/ registrations' # registrations) =>
           (workbenchBasics' = workbenchBasics /\ workbench' = workbench) ]_vars
  /\ [][ workbenchBasics' # workbenchBasics =>
           /\ ~workbenchBasics'.isNull
           /\ UuidsOf(workbenchBasics'.items) = UuidsOf(stage)
           /\ \A k \in 1 .. Len(stage) :
                /\ workbenchBasics'.items[k].mesh = stage[k].mesh
                /\ workbenchBasics'.items[k].material = stage[k].material
                /\ workbenchBasics'.items[k].needsLightMap = stage[k].isMapped ]_vars
  /\ [][ workbench'.id = workbench.id => workbench' = workbench ]_vars

\* C22 witness: a Workbench of two meshes is published and both meshes have
\* de-registered since its snapshot was taken.
C22_Witness ==
  /\ ~workbench.isNull
  /\ workbench.id = workbenchBasics.id
  /\ Len(workbench.lightSceneItems) = 2
  /\ Len(workbenchBasics.items) = 2
  /\ stage = <<>>

\* the AtlasMap a mapper mounted over an item list produces
AtlasMapFor(items) ==
  LET sc == [k \in 1 .. Len(items) |-> items[k].mesh]
      r  == Traverse(sc, 1,
              [items |-> <<>>, lightMaps |-> [k \in 1 .. Len(sc) |-> sc[k].lightMap],
               error |-> "none", at |-> 0])
  IN  MakeAtlasMap(r.items)

\* C23: the Workbench changes only in a step that publishes one with the id
\* and the item list of the current snapshot and the AtlasMap of the mapper
\* mounted over that item list; the ids published increase.
C23_WorkbenchOfItsSession ==
  /\ [][ workbench' # workbench =>
           /\ workbenchBasics' = workbenchBasics
           /\ published' = Append(published, workbench'.id)
           /\ workbench'.id = workbenchBasics.id
           /\ workbench'.lightSceneItems = workbenchBasics.items
           /\ workbench'.atlasMap = AtlasMapFor(workbenchBasics.items) ]_vars
  /\ [](\A i, j \in DOMAIN published : i < j => published[i] < published[j])

\* C23 witness: the second snapshot was started while the mapping of the
\* first was pending, and the only Workbench published is the second one's,
\* over a non-empty atlas.
C23_Witness ==
  /\ published = <<2>>
  /\ workbench.id = 2
  /\ Len(workbench.atlasMap.items) > 0

\* the workbench carries an AtlasMap a mapper produced
HasAtlasMap(wb) == DOMAIN wb.atlasMap = {"items", "data"}

\* C16: the workbench passed to the children is null at first, changes only
\* in the step in which a mapper hands its AtlasMap to the completion
\* callback, and whenever it is not null it carries that AtlasMap.
C16_NullUntilMapped ==
  /\ workbench.isNull
  /\ [][ workbench' # workbench =>
           /\ CompletionStep
           /\ ~workbench'.isNull
           /\ workbench'.atlasMap = completedMaps'[1] ]_vars
  /\ [](~workbench.isNull => HasAtlasMap(workbench))

\* C16 witness: a mapper has completed over a non-empty atlas and the
\* children see its workbench.
C16_Witness ==
  /\ ~workbench.isNull
  /\ HasAtlasMap(workbench)
  /\ Len(workbench.atlasMap.items) > 0
  /\ isComplete

====
